---- MODULE Spec2Model ----
(***************************************************************************)
(* Items API with owner-based access control (app/api/routes/items.py) and *)
(* the media service that validates and stores uploads                     *)
(* (app/core/media.py).                                                    *)
(*                                                                         *)
(* Conventions.  An optional value is a tuple: <<>> is Python's None and   *)
(* <<v>> is the value v.  A MIME type "image/png" is the pair              *)
(* <<"image", "png">>, so that startswith("image/") is a test of the first *)
(* component.  A URL or path is the tuple of its components.               *)
(***************************************************************************)
EXTENDS Integers, Sequences, FiniteSets, TLC

VARIABLES
    settings,       \* app.core.config.settings: which CLOUDINARY_* values are truthy
    media_service,  \* the module global of media.py: <<>> or <<instance>>
    constructed,    \* the MediaService instances constructed so far (instance ids)
    rows,           \* the item table, a sequence of Item rows
    disk,           \* the files under uploads/: a set of [path, bytes]
    file,           \* the UploadFile of the request in progress (or of the last one)
    call,           \* the request in progress: its operation, position and locals
    resp,           \* the last request that finished, its inputs and its outcome;
                    \* NoResponse while a request is being served
    threads         \* per thread inside get_media_service: its position (pc), the
                    \* instance it constructed (obj) and what it returned (ret)

vars == <<settings, media_service, constructed, rows, disk, file, call, resp, threads>>
appVars == <<rows, disk, file, call, resp>>

-----------------------------------------------------------------------------
(* Bounds of the model *)

MaxItems == 3       \* rows in the item table
MaxUsers == 2       \* user ids 1..MaxUsers
MaxSkip == 2        \* skip and limit range over 0..MaxSkip
MaxFiles == 1       \* files kept under uploads/ at a time
MaxThreads == 3     \* threads resolving Depends(get_media_service) at once

(* Program constants *)

DefaultMaxSizeMb == 10      \* _validate_file(max_size_mb=10)
SniffLen == 2048            \* file.file.read(2048)

max_size_bytes(max_size_mb) == max_size_mb * 1024 * 1024

-----------------------------------------------------------------------------
(* Values *)

None == <<>>
Some(v) == <<v>>
Min(a, b) == IF a < b THEN a ELSE b

UserIds == 1 .. MaxUsers
ItemIds == 1 .. MaxItems
\* the media workload works on one item id
MediaItemIds == {1}
\* the values uuid4() takes: two, so that a new file name has to differ from
\* the name of a file that is already there
Uuids == {1, 2}
Threads == 1 .. MaxThreads

\* CurrentUser: the authenticated requester handed to a route
Requesters == [id : UserIds, is_superuser : BOOLEAN]

HTTPException(status_code, detail) == [status_code |-> status_code, detail |-> detail]

NoFile == [filename |-> None, content_type |-> None, size |-> None,
           length |-> 0, magic |-> <<"application", "x-empty">>, pos |-> 0]

Idle == [op |-> "none", pc |-> "idle", user |-> None, id |-> 0,
         io |-> {}, result |-> None]

-----------------------------------------------------------------------------
(* MediaService (app/core/media.py) *)

\* all([...]) over the three settings
use_cloudinary(s) ==
    s.CLOUDINARY_CLOUD_NAME /\ s.CLOUDINARY_API_KEY /\ s.CLOUDINARY_API_SECRET

\* MediaService.__init__: the instance `n`, its backend choice fixed here
MediaService(n, s) == [inst |-> n, use_cloudinary |-> use_cloudinary(s)]

allowed_image_types ==
    {<<"image", "jpeg">>, <<"image", "png">>, <<"image", "gif">>, <<"image", "webp">>}

allowed_video_types ==
    {<<"video", "mp4">>, <<"video", "webm">>, <<"video", "ogg">>, <<"video", "quicktime">>}

\* file.file.read(n): the number of bytes a read of at most n bytes returns
read_len(f, n) == Min(n, f.length - f.pos)

\* file.file.read(n) / read(): the position after the read
after_read(f, n) == [f EXCEPT !.pos = @ + read_len(f, n)]

\* a seek that is left out
MutNoSeek(f, offset) == f

\* file.file.seek(offset)
seek(f, offset) == [f EXCEPT !.pos = offset]

\* magic.from_buffer(content, mime=True) for the `n` bytes read at f.pos:
\* nothing read is application/x-empty, the leading bytes give the type of
\* the content, bytes from the middle of a file are unrecognised data.
from_buffer(f, n) ==
    IF n = 0 THEN <<"application", "x-empty">>
    ELSE IF f.pos = 0 THEN f.magic
    ELSE <<"application", "octet-stream">>

\* a size check that is left out
MutSizeNotChecked(f, max_size_mb) == FALSE

\* `file.size and file.size > max_size_bytes`
too_large(f, max_size_mb) ==
    /\ f.size # None
    /\ f.size[1] # 0
    /\ f.size[1] > max_size_bytes(max_size_mb)

\* `mime_type not in allowed_image_types + allowed_video_types`
type_allowed(mime_type) == mime_type \in allowed_image_types \cup allowed_video_types

\* MediaService._validate_file: the exception raised (<<>> when it returns),
\* the file afterwards, and whether the leading bytes were sniffed
_validate_file(f, max_size_mb) ==
    IF too_large(f, max_size_mb)
    THEN [exc |-> Some(HTTPException(413, "File too large")), file |-> f,
          sniffed |-> FALSE]
    ELSE LET n == read_len(f, SniffLen)
             mime_type == from_buffer(f, n)
             g == seek(after_read(f, SniffLen), 0)
         IN  [exc |-> IF type_allowed(mime_type) THEN None
                      ELSE Some(HTTPException(400, "Unsupported file type")),
              file |-> g, sniffed |-> TRUE]

\* Path(file.filename).suffix if file.filename else ""
file_extension(f) == IF f.filename = None THEN "" ELSE f.filename[1].suffix

\* file_extension.lstrip(".") if file_extension else "unknown"
format_of(ext) ==
    CASE ext = "" -> "unknown"
      [] ext = ".jpg" -> "jpg"
      [] ext = ".mp4" -> "mp4"
      [] OTHER -> ext

\* "image" if file.content_type and file.content_type.startswith("image/") else "video"
local_resource_type(f) ==
    IF f.content_type # None /\ f.content_type[1] = "image" THEN "image" ELSE "video"

\* MediaService._upload_to_local with uuid4() = u.  `fault` is where an I/O
\* error strikes: "none", "mkdir" (before the file exists) or "write" (the
\* file was opened for writing, so it exists, and the write failed).
_upload_to_local(f, folder, d, u, fault) ==
    LET ext == file_extension(f)
        file_path == <<"uploads", folder, u, ext>>
        n == f.length - f.pos
        others == {x \in d : x.path # file_path}
    IN  CASE fault = "mkdir" ->
               [exc |-> Some(HTTPException(500, "Local upload failed")),
                result |-> None, file |-> f, disk |-> d, io |-> {}]
          [] fault = "write" ->
               [exc |-> Some(HTTPException(500, "Local upload failed")),
                result |-> None, file |-> f,
                disk |-> others \cup {[path |-> file_path, bytes |-> 0]},
                io |-> {"disk_write"}]
          [] OTHER ->
               [exc |-> None,
                result |-> Some([url |-> <<"/uploads", folder, u, ext>>,
                                 public_id |-> file_path,
                                 resource_type |-> local_resource_type(f),
                                 format |-> format_of(ext),
                                 width |-> None, height |-> None,
                                 bytes |-> n]),
                file |-> after_read(f, n),
                disk |-> others \cup {[path |-> file_path, bytes |-> n]},
                io |-> {"disk_write"}]

\* What cloudinary.uploader.upload may answer: an exception, or a result
\* whose resource_type the host detects ("raw" is what it reports for a file
\* it takes for neither an image nor a video).
CloudResourceTypes == {"image", "video", "raw"}
\* the assets the host names in its answers
CloudAssets == {1, 2}

CloudAnswers ==
    {[raises |-> TRUE, asset |-> 0, resource_type |-> "raw"]} \cup
    [raises : {FALSE}, asset : CloudAssets, resource_type : CloudResourceTypes]

\* MediaService._upload_to_cloudinary, the host answering `ans`
_upload_to_cloudinary(f, folder, ans) ==
    IF ans.raises
    THEN [exc |-> Some(HTTPException(500, "Cloudinary upload failed")),
          result |-> None, file |-> f, io |-> {"cloud_upload"}]
    ELSE [exc |-> None,
          result |-> Some([url |-> <<"https://res.cloudinary.com", folder, ans.asset, "">>,
                           public_id |-> <<"cloudinary", folder, ans.asset, "">>,
                           resource_type |-> ans.resource_type,
                           format |-> "unknown",
                           width |-> None, height |-> None,
                           bytes |-> f.length - f.pos]),
          file |-> after_read(f, f.length - f.pos), io |-> {"cloud_upload"}]

\* a delete_file without its try/except
MutDeleteFileNoExcept(self, public_id, d, outcome) ==
    IF outcome = "raises"
    THEN [raised |-> TRUE, value |-> FALSE, disk |-> d]
    ELSE IF self.use_cloudinary
    THEN [raised |-> FALSE, value |-> (outcome = "ok"), disk |-> d]
    ELSE [raised |-> FALSE, value |-> (\E x \in d : x.path = public_id),
          disk |-> {x \in d : x.path # public_id}]

\* MediaService.delete_file.  `outcome` is what the backend call does: "ok",
\* "not_ok" (destroy answers something else than "ok"; nothing of the kind on
\* the local disk) or "raises".  `raised` tells whether the exception leaves
\* delete_file; both branches catch Exception and return False.
delete_file(self, public_id, d, outcome) ==
    IF self.use_cloudinary
    THEN IF outcome = "raises"
         THEN [raised |-> FALSE, value |-> FALSE, disk |-> d]
         ELSE [raised |-> FALSE, value |-> (outcome = "ok"), disk |-> d]
    ELSE IF outcome = "raises"
         THEN [raised |-> FALSE, value |-> FALSE, disk |-> d]
         ELSE IF \E x \in d : x.path = public_id
              THEN [raised |-> FALSE, value |-> TRUE,
                    disk |-> {x \in d : x.path # public_id}]
              ELSE [raised |-> FALSE, value |-> FALSE, disk |-> d]

\* get_media_service, run without interruption: the global afterwards
get_media_service(ms, made, s) ==
    IF ms = None THEN Some(MediaService(Cardinality(made) + 1, s)) ELSE ms

-----------------------------------------------------------------------------
(* The item table (the SQLModel session over Item) *)

\* Item.model_validate(item_in, update={"owner_id": ...}): a new row, no media yet
NewItem(id, owner_id, item_in) ==
    [id |-> id, owner_id |-> owner_id, title |-> item_in.title,
     media_type |-> None, image_url |-> None, video_url |-> None]

\* session.get(Item, id): the index of the row, 0 when there is none
get(tbl, id) ==
    IF \E i \in 1 .. Len(tbl) : tbl[i].id = id
    THEN CHOOSE i \in 1 .. Len(tbl) : tbl[i].id = id
    ELSE 0

\* session.delete(item); session.commit()
remove(tbl, i) == [k \in 1 .. Len(tbl) - 1 |-> IF k < i THEN tbl[k] ELSE tbl[k + 1]]

\* a check that forgets the superuser
MutOwnerOnly(current_user, item) == item.owner_id # current_user.id

\* `not current_user.is_superuser and (item.owner_id != current_user.id)`
not_enough_permissions(current_user, item) ==
    ~current_user.is_superuser /\ item.owner_id # current_user.id

\* .offset(skip).limit(limit)
offset_limit(tbl, skip, limit) == SubSeq(tbl, skip + 1, Min(Len(tbl), skip + limit))

\* .where(Item.owner_id == current_user.id)
where_owner(tbl, current_user) == SelectSeq(tbl, LAMBDA it : it.owner_id = current_user.id)

\* a listing that pages first and filters the page
MutFilterAfterPage(tbl, current_user, skip, limit) ==
    IF current_user.is_superuser
    THEN offset_limit(tbl, skip, limit)
    ELSE where_owner(offset_limit(tbl, skip, limit), current_user)

\* read_items: the statement that selects the page
select_items(tbl, current_user, skip, limit) ==
    IF current_user.is_superuser
    THEN offset_limit(tbl, skip, limit)
    ELSE offset_limit(where_owner(tbl, current_user), skip, limit)

\* read_items: the count statement
count_items(tbl, current_user) ==
    IF current_user.is_superuser
    THEN Len(tbl)
    ELSE Len(where_owner(tbl, current_user))

\* add_media_to_item, lines 105-111: the upload result mapped onto the item
attach_media(item, upload_result) ==
    IF upload_result.resource_type = "image"
    THEN [item EXCEPT !.image_url = Some(upload_result.url), !.media_type = Some("image")]
    ELSE IF upload_result.resource_type = "video"
    THEN [item EXCEPT !.video_url = Some(upload_result.url), !.media_type = Some("video")]
    ELSE item

\* item.sqlmodel_update(item_in.model_dump(exclude_unset=True))
sqlmodel_update(item, item_in) ==
    IF item_in.title = None THEN item ELSE [item EXCEPT !.title = item_in.title[1]]

Ok(op, current_user, id) ==
    [op |-> op, user |-> current_user, id |-> id, status |-> 200, detail |-> "",
     committed |-> FALSE, io |-> {}, item |-> None, upload |-> None, value |-> None]

Failed(op, current_user, id, exc) ==
    [Ok(op, current_user, id) EXCEPT !.status = exc.status_code, !.detail = exc.detail]

\* while a request is being served there is no response yet
NoResponse == Ok("none", None, 0)

NotFound == HTTPException(404, "Item not found")
Forbidden == HTTPException(400, "Not enough permissions")

-----------------------------------------------------------------------------
(* Initial state: nothing stored, the media service not constructed yet *)

Settings(name, key, secret) ==
    [CLOUDINARY_CLOUD_NAME |-> name, CLOUDINARY_API_KEY |-> key,
     CLOUDINARY_API_SECRET |-> secret]

\* all three configured, none configured, and the secret missing
SettingsSpace ==
    {Settings(TRUE, TRUE, TRUE), Settings(FALSE, FALSE, FALSE), Settings(TRUE, TRUE, FALSE)}

InitWith(configurations) ==
    /\ settings \in configurations
    /\ media_service = None
    /\ constructed = {}
    /\ rows = <<>>
    /\ disk = {}
    /\ file = NoFile
    /\ call = Idle
    /\ resp = NoResponse
    /\ threads = [t \in Threads |-> [pc |-> "idle", obj |-> None, ret |-> None]]

Init == InitWith(SettingsSpace)

\* Depends(get_media_service), resolved before the route body runs
resolve_media_service ==
    /\ media_service' = get_media_service(media_service, constructed, settings)
    /\ constructed' = IF media_service = None
                      THEN constructed \cup {media_service'[1].inst}
                      ELSE constructed

-----------------------------------------------------------------------------
(* Routes (app/api/routes/items.py); one request is served at a time *)

read_items(current_user, skip, limit) ==
    /\ call.pc = "idle"
    /\ resp' = [Ok("read_items", Some(current_user), 0) EXCEPT
                   !.value = Some([skip |-> skip, limit |-> limit,
                                    data |-> select_items(rows, current_user, skip, limit),
                                    count |-> count_items(rows, current_user)])]
    /\ file' = NoFile
    /\ UNCHANGED <<settings, media_service, constructed, rows, disk, call, threads>>

read_item(current_user, id) ==
    /\ call.pc = "idle"
    /\ LET i == get(rows, id)
       IN  resp' = IF i = 0 THEN Failed("read_item", Some(current_user), id, NotFound)
                   ELSE IF not_enough_permissions(current_user, rows[i])
                   THEN Failed("read_item", Some(current_user), id, Forbidden)
                   ELSE [Ok("read_item", Some(current_user), id) EXCEPT
                            !.value = Some(rows[i])]
    /\ file' = NoFile
    /\ UNCHANGED <<settings, media_service, constructed, rows, disk, call, threads>>

create_item(current_user, item_in, id) ==
    /\ call.pc = "idle"
    /\ get(rows, id) = 0
    /\ rows' = Append(rows, NewItem(id, current_user.id, item_in))
    /\ resp' = [Ok("create_item", Some(current_user), id) EXCEPT
                   !.committed = TRUE, !.value = Some(rows'[Len(rows')])]
    /\ file' = NoFile
    /\ UNCHANGED <<settings, media_service, constructed, disk, call, threads>>

update_item(current_user, id, item_in) ==
    /\ call.pc = "idle"
    /\ LET i == get(rows, id)
       IN  IF i = 0
           THEN /\ resp' = Failed("update_item", Some(current_user), id, NotFound)
                /\ rows' = rows
           ELSE IF not_enough_permissions(current_user, rows[i])
           THEN /\ resp' = Failed("update_item", Some(current_user), id, Forbidden)
                /\ rows' = rows
           ELSE /\ rows' = [rows EXCEPT ![i] = sqlmodel_update(@, item_in)]
                /\ resp' = [Ok("update_item", Some(current_user), id) EXCEPT
                               !.committed = TRUE, !.item = Some(rows[i]),
                               !.value = Some(rows'[i])]
    /\ file' = NoFile
    /\ UNCHANGED <<settings, media_service, constructed, disk, call, threads>>

delete_item(current_user, id) ==
    /\ call.pc = "idle"
    /\ resolve_media_service
    /\ LET i == get(rows, id)
       IN  IF i = 0
           THEN /\ resp' = Failed("delete_item", Some(current_user), id, NotFound)
                /\ rows' = rows
           ELSE IF not_enough_permissions(current_user, rows[i])
           THEN /\ resp' = Failed("delete_item", Some(current_user), id, Forbidden)
                /\ rows' = rows
           ELSE \* lines 161-166: both media branches are `pass`
                /\ rows' = remove(rows, i)
                /\ resp' = [Ok("delete_item", Some(current_user), id) EXCEPT
                               !.committed = TRUE, !.item = Some(rows[i])]
    /\ file' = NoFile
    /\ UNCHANGED <<settings, disk, call, threads>>

\* upload_media up to the call of media_service.upload_file: no CurrentUser
\* parameter, no item, no check
upload_media_begin(f) ==
    /\ call.pc = "idle"
    /\ Cardinality(disk) < Min(MaxFiles, Cardinality(Uuids))
    /\ resolve_media_service
    /\ file' = f
    /\ call' = [Idle EXCEPT !.op = "upload_media", !.pc = "validate"]
    /\ resp' = NoResponse
    /\ UNCHANGED <<settings, rows, disk, threads>>

\* an add_media_to_item that marks the item before the file is uploaded
MutWriteBeforeUpload(current_user, id, f) ==
    /\ call.pc = "idle"
    /\ Cardinality(disk) < Min(MaxFiles, Cardinality(Uuids))
    /\ resolve_media_service
    /\ get(rows, id) # 0
    /\ ~not_enough_permissions(current_user, rows[get(rows, id)])
    /\ rows' = [rows EXCEPT ![get(rows, id)].media_type = Some("image")]
    /\ resp' = NoResponse
    /\ file' = f
    /\ call' = [Idle EXCEPT !.op = "add_media_to_item", !.pc = "validate",
                            !.user = Some(current_user), !.id = id]
    /\ UNCHANGED <<settings, disk, threads>>

\* add_media_to_item, lines 96-100
add_media_to_item_begin(current_user, id, f) ==
    /\ call.pc = "idle"
    /\ Cardinality(disk) < Min(MaxFiles, Cardinality(Uuids))
    /\ resolve_media_service
    /\ LET i == get(rows, id)
       IN  IF i = 0
           THEN /\ resp' = Failed("add_media_to_item", Some(current_user), id, NotFound)
                /\ call' = Idle
                /\ file' = NoFile
           ELSE IF not_enough_permissions(current_user, rows[i])
           THEN /\ resp' = Failed("add_media_to_item", Some(current_user), id, Forbidden)
                /\ call' = Idle
                /\ file' = NoFile
           ELSE /\ resp' = NoResponse
                /\ file' = f
                /\ call' = [Idle EXCEPT !.op = "add_media_to_item", !.pc = "validate",
                                        !.user = Some(current_user), !.id = id]
    /\ UNCHANGED <<settings, rows, disk, threads>>

\* MediaService.upload_file, line 59
upload_file_validate ==
    /\ call.pc = "validate"
    /\ LET v == _validate_file(file, DefaultMaxSizeMb)
       IN  /\ file' = v.file
           /\ IF v.exc # None
              THEN /\ resp' = Failed(call.op, call.user, call.id, v.exc[1])
                   /\ call' = Idle
              ELSE /\ resp' = resp
                   /\ call' = [call EXCEPT !.pc = "backend"]
    /\ UNCHANGED <<settings, media_service, constructed, rows, disk, threads>>

\* the answer of the configured backend, lines 61-64
backend_answers(self, f, d) ==
    IF self.use_cloudinary
    THEN {[r EXCEPT !.disk = d] :
            r \in {[disk |-> d] @@ _upload_to_cloudinary(f, "items", ans) : ans \in CloudAnswers}}
    ELSE {_upload_to_local(f, "items", d, u, fault) :
            u \in {u \in Uuids : \A x \in d : x.path[3] # u},
            fault \in {"none", "mkdir", "write"}}

\* MediaService.upload_file, lines 61-64, and the return of upload_media
upload_file_backend ==
    /\ call.pc = "backend"
    /\ \E r \in backend_answers(media_service[1], file, disk) :
          /\ file' = r.file
          /\ disk' = r.disk
          /\ IF r.exc # None
             THEN /\ resp' = [Failed(call.op, call.user, call.id, r.exc[1]) EXCEPT
                                 !.io = r.io]
                  /\ call' = Idle
             ELSE IF call.op = "upload_media"
             THEN /\ resp' = [Ok(call.op, call.user, call.id) EXCEPT
                                 !.io = r.io, !.upload = r.result, !.value = r.result]
                  /\ call' = Idle
             ELSE /\ resp' = resp
                  /\ call' = [call EXCEPT !.pc = "attach", !.io = r.io,
                                          !.result = r.result]
    /\ UNCHANGED <<settings, media_service, constructed, rows, threads>>

\* add_media_to_item, lines 105-116
add_media_to_item_commit ==
    /\ call.pc = "attach"
    /\ LET i == get(rows, call.id)
       IN  /\ rows' = [rows EXCEPT ![i] = attach_media(@, call.result[1])]
           /\ resp' = [Ok(call.op, call.user, call.id) EXCEPT
                          !.committed = TRUE, !.io = call.io, !.item = Some(rows[i]),
                          !.upload = call.result, !.value = Some(rows'[i])]
    /\ call' = Idle
    /\ UNCHANGED <<settings, media_service, constructed, disk, file, threads>>

\* a caller of MediaService.delete_file (no route calls it)
delete_file_call(public_id, outcome) ==
    /\ call.pc = "idle"
    /\ resolve_media_service
    /\ LET r == delete_file(media_service'[1], public_id, disk, outcome)
       IN  /\ disk' = r.disk
           /\ resp' = [Ok("delete_file", None, 0) EXCEPT
                          !.value = Some([public_id |-> public_id, outcome |-> outcome,
                                          raised |-> r.raised, value |-> r.value])]
    /\ file' = NoFile
    /\ UNCHANGED <<settings, rows, call, threads>>

-----------------------------------------------------------------------------
(* Requests *)

\* ItemUpdate bodies: no title set, and a new title
ItemUpdates == {[title |-> None], [title |-> Some("b")]}

Lengths == {0, 1, SniffLen, SniffLen + 1,
            max_size_bytes(DefaultMaxSizeMb), max_size_bytes(DefaultMaxSizeMb) + 1}

\* what libmagic makes of the content
Magics == {<<"image", "png">>, <<"video", "mp4">>, <<"text", "plain">>}

\* what the client declares as the type: nothing, or a MIME type
ContentTypes == {None, <<"image", "png">>, <<"video", "mp4">>}
Filenames == {None, Some([stem |-> "photo", suffix |-> ".jpg"])}

\* An UploadFile as a route receives it: positioned at its start, its size
\* (when known) the length of its content, an empty content of no type.
UploadFiles ==
    {f \in [filename : Filenames, content_type : ContentTypes,
            size : {None} \cup {Some(n) : n \in Lengths}, length : Lengths,
            magic : Magics \cup {<<"application", "x-empty">>}, pos : {0}] :
        /\ f.size # None => f.size[1] = f.length
        /\ (f.length = 0) <=> (f.magic = <<"application", "x-empty">>)}

\* the files the media workload attaches to items: a picture, a clip, a text
\* file and a picture over the size limit
ItemFiles ==
    {f \in UploadFiles :
        /\ f.filename # None
        /\ f.size # None
        /\ f.content_type # None
        /\ \/ f.length = SniffLen + 1 /\ f.magic[1] \in {f.content_type[1], "text"}
           \/ f.length > max_size_bytes(DefaultMaxSizeMb) /\ f.magic[1] = "image"
        /\ f.magic[1] = "text" => f.content_type[1] = "image"
        /\ f.length > max_size_bytes(DefaultMaxSizeMb) => f.content_type[1] = "image"}

PublicIds(d) ==
    {x.path : x \in d} \cup {<<"uploads", "items", 1, "">>, <<"cloudinary", "items", 1, "">>}

DeleteOutcomes == {"ok", "not_ok", "raises"}

\* The listing workload: items are created, read and listed.  No route of it
\* reads the settings, so one configuration stands for all; uuid4 gives each
\* new item a fresh id, here the next unused number.
NextItems ==
    \/ \E u \in Requesters, skip \in 0 .. MaxSkip, limit \in 0 .. MaxSkip :
          read_items(u, skip, limit)
    \/ \E u \in Requesters, id \in ItemIds : read_item(u, id)
    \/ \E u \in Requesters :
          Len(rows) < MaxItems /\ create_item(u, [title |-> "a"], Len(rows) + 1)

SpecItems == InitWith({Settings(FALSE, FALSE, FALSE)}) /\ [][NextItems]_vars

\* The media workload: media is attached to items, which are read, renamed and
\* deleted; files are uploaded and deleted
NextMedia ==
    \/ \E u \in Requesters, id \in MediaItemIds : create_item(u, [title |-> "a"], id)
    \/ \E u \in Requesters, id \in MediaItemIds : read_item(u, id)
    \/ \E u \in Requesters, id \in MediaItemIds, item_in \in ItemUpdates :
          update_item(u, id, item_in)
    \/ \E u \in Requesters, id \in MediaItemIds : delete_item(u, id)
    \/ \E f \in ItemFiles : upload_media_begin(f)
    \/ \E u \in Requesters, id \in MediaItemIds, f \in ItemFiles :
          add_media_to_item_begin(u, id, f)
    \/ upload_file_validate
    \/ upload_file_backend
    \/ add_media_to_item_commit
    \/ \E public_id \in PublicIds(disk), outcome \in DeleteOutcomes :
          delete_file_call(public_id, outcome)

SpecMedia == Init /\ [][NextMedia]_vars

\* The upload workload: files of every size and type are uploaded and deleted
NextUpload ==
    \/ \E f \in UploadFiles : upload_media_begin(f)
    \/ upload_file_validate
    \/ upload_file_backend
    \/ \E public_id \in PublicIds(disk), outcome \in DeleteOutcomes :
          delete_file_call(public_id, outcome)

SpecUpload == Init /\ [][NextUpload]_vars

-----
(* get_media_service, statement by statement, in threads: FastAPI runs a   *)
(* dependency that is a plain `def` in its thread pool                     *)

\* a thread enters get_media_service
gms_enter(t) ==
    /\ threads[t].pc = "idle"
    /\ threads' = [threads EXCEPT ![t].pc = "test"]
    /\ UNCHANGED <<settings, media_service, constructed, appVars>>

\* `if media_service is None:`
gms_test(t) ==
    /\ threads[t].pc = "test"
    /\ threads' = [threads EXCEPT
                      ![t].pc = IF media_service = None THEN "construct" ELSE "return"]
    /\ UNCHANGED <<settings, media_service, constructed, appVars>>

\* `MediaService()`: the right-hand side of the assignment
gms_construct(t) ==
    /\ threads[t].pc = "construct"
    /\ LET n == Cardinality(constructed) + 1
       IN  /\ constructed' = constructed \cup {n}
           /\ threads' = [threads EXCEPT ![t].pc = "store",
                                         ![t].obj = Some(MediaService(n, settings))]
    /\ UNCHANGED <<settings, media_service, appVars>>

\* `media_service = ...`: the global is bound
gms_store(t) ==
    /\ threads[t].pc = "store"
    /\ media_service' = threads[t].obj
    /\ threads' = [threads EXCEPT ![t].pc = "return"]
    /\ UNCHANGED <<settings, constructed, appVars>>

\* `return media_service`
gms_return(t) ==
    /\ threads[t].pc = "return"
    /\ threads' = [threads EXCEPT ![t].pc = "done", ![t].ret = media_service]
    /\ UNCHANGED <<settings, media_service, constructed, appVars>>

NextThreads ==
    \E t \in Threads :
        \/ gms_enter(t)
        \/ gms_test(t)
        \/ gms_construct(t)
        \/ gms_store(t)
        \/ gms_return(t)

SpecThreads == Init /\ [][NextThreads]_vars

-----------------------------------------------------------------------------
(* Properties *)

\* the access rule of the specification
Permitted(u, owner_id) == u.is_superuser \/ u.id = owner_id

\* the positions in `tbl` of the rows with this id
Found(tbl, id) == {i \in 1 .. Len(tbl) : tbl[i].id = id}

IsNotFound(r) == r.status = 404 /\ r.detail = "Item not found"
IsForbidden(r) == r.status = 400 /\ r.detail = "Not enough permissions"

\* a step in which a request of operation `op` finishes
Finishes(op) == resp' # resp /\ resp'.op = op

\* C1: read_item, update_item, delete_item and add_media_to_item are permitted
\* exactly when the requester is a superuser or owns the item; otherwise the
\* request is rejected with "Not enough permissions", and a request for an id
\* that is not in the table is rejected with "Item not found" for everyone.
C1_AccessRule ==
    [][ /\ \A op \in {"read_item", "update_item", "delete_item"} :
              Finishes(op) =>
                 /\ Found(rows, resp'.id) = {} => IsNotFound(resp')
                 /\ \A i \in Found(rows, resp'.id) :
                       IF Permitted(resp'.user[1], rows[i].owner_id)
                       THEN resp'.status = 200
                       ELSE IsForbidden(resp')
        /\ (call.pc = "idle" /\ Finishes("add_media_to_item")) =>
              /\ Found(rows, resp'.id) = {} => IsNotFound(resp')
              /\ \A i \in Found(rows, resp'.id) :
                    ~Permitted(resp'.user[1], rows[i].owner_id) /\ IsForbidden(resp')
        /\ (call.pc = "idle" /\ call'.op = "add_media_to_item") =>
              \E i \in Found(rows, call'.id) :
                 Permitted(call'.user[1], rows[i].owner_id)
      ]_vars

\* a superuser has renamed an item of another user
C1_Witness ==
    /\ resp.op = "update_item"
    /\ resp.status = 200
    /\ resp.user[1].is_superuser
    /\ resp.user[1].id # resp.value[1].owner_id
    /\ resp.value[1].title # resp.item[1].title

\* C2: an item's media_type is image exactly when image_url is set and
\* video_url is not, and video exactly when video_url is set and image_url is
\* not, after any sequence of attachments to an item that started without media.
C2_MediaFieldsExclusive ==
    \A i \in 1 .. Len(rows) :
        /\ (rows[i].media_type = Some("image")) <=>
              (rows[i].image_url # None /\ rows[i].video_url = None)
        /\ (rows[i].media_type = Some("video")) <=>
              (rows[i].video_url # None /\ rows[i].image_url = None)

\* the rows a requester may list, in table order
Visible(u) == {i \in 1 .. Len(rows) : u.is_superuser \/ rows[i].owner_id = u.id}

\* the position of row i among the visible rows
Rank(u, i) == Cardinality({j \in Visible(u) : j <= i})

\* C3: read_items returns the rows skip+1 .. skip+limit of the rows visible to
\* the requester (all rows for a superuser, the requester's own otherwise),
\* and count is the number of visible rows whatever skip and limit are.
C3_ListingScoped ==
    resp.op = "read_items" =>
        LET u == resp.user[1]
            page == resp.value[1]
            n == Cardinality(Visible(u))
            rest == IF n > page.skip THEN n - page.skip ELSE 0
        IN  /\ page.count = n
            /\ Len(page.data) = Min(page.limit, rest)
            /\ \A k \in 1 .. Len(page.data) :
                  \E i \in Visible(u) :
                     Rank(u, i) = page.skip + k /\ page.data[k] = rows[i]

\* a user who owns part of the table has listed a later page of their rows
C3_Witness ==
    /\ resp.op = "read_items"
    /\ ~resp.user[1].is_superuser
    /\ resp.value[1].skip > 0
    /\ Len(resp.value[1].data) > 0
    /\ resp.value[1].count < Len(rows)

\* C4: delete_item by an owner or superuser removes the item, with or without
\* media on it; MediaService.delete_file never raises and answers False when
\* the backend call raised.
C4_DeleteNotBlocked ==
    [][ /\ Finishes("delete_item") =>
              \A i \in Found(rows, resp'.id) :
                 Permitted(resp'.user[1], rows[i].owner_id) =>
                    /\ resp'.status = 200
                    /\ Found(rows', resp'.id) = {}
                    /\ Len(rows') = Len(rows) - 1
        /\ Finishes("delete_file") =>
              /\ resp'.value[1].raised = FALSE
              /\ resp'.value[1].value \in BOOLEAN
              /\ resp'.value[1].outcome = "raises" => resp'.value[1].value = FALSE
      ]_vars

\* an item with an image on it has been deleted
C4_Witness ==
    /\ resp.op = "delete_item"
    /\ resp.status = 200
    /\ resp.item[1].image_url # None
    /\ Found(rows, resp.id) = {}

\* C5: a failed upload leaves the table as it was and commits nothing; during
\* add_media_to_item the table changes only in the step after upload_file
\* has returned a result.
C5_UploadBeforeWrite ==
    [][ /\ (Finishes("add_media_to_item") /\ resp'.status # 200) =>
              (rows' = rows /\ ~resp'.committed)
        /\ ((call.op = "add_media_to_item" \/ call'.op = "add_media_to_item")
               /\ rows' # rows) =>
              (call.pc = "attach" /\ call.result # None /\ call.io # {})
      ]_vars

\* the backend failed while media was being added to an item
C5_Witness ==
    /\ resp.op = "add_media_to_item"
    /\ resp.status = 500
    /\ resp.io # {}
    /\ \E i \in Found(rows, resp.id) : rows[i].media_type = None

\* the declared size is over 10 MiB
DeclaredTooLarge(f) == f.size # None /\ f.size[1] > 10 * 1024 * 1024

\* the type of the content, told from its leading bytes
SniffedType(f) == IF f.length = 0 THEN <<"application", "x-empty">> ELSE f.magic

EightTypes ==
    {<<"image", "jpeg">>, <<"image", "png">>, <<"image", "gif">>, <<"image", "webp">>,
     <<"video", "mp4">>, <<"video", "webm">>, <<"video", "ogg">>, <<"video", "quicktime">>}

\* C6: validation comes first: a file whose declared size is over the limit is
\* rejected with 413, a file whose sniffed type is not one of the eight is
\* rejected as an unsupported type, and up to and including the validation
\* step nothing is uploaded to the cloud nor written to the disk; the backend
\* is reached only by files that pass.
C6_ValidateBeforeBackend ==
    [][ /\ call.pc = "validate" =>
              /\ disk' = disk /\ call'.io = {} /\ resp'.io = {}
              /\ DeclaredTooLarge(file) =>
                    /\ resp'.status = 413 /\ resp'.detail = "File too large"
                    /\ call'.pc = "idle"
              /\ (~DeclaredTooLarge(file) /\ SniffedType(file) \notin EightTypes) =>
                    /\ resp'.status = 400 /\ resp'.detail = "Unsupported file type"
                    /\ call'.pc = "idle"
        /\ call'.pc = "validate" => (disk' = disk /\ call'.io = {})
        /\ call'.pc = "backend" =>
              (~DeclaredTooLarge(file) /\ SniffedType(file) \in EightTypes)
      ]_vars

\* a file over the limit has been rejected
C6_Witness ==
    /\ resp.op = "upload_media"
    /\ resp.status = 413
    /\ DeclaredTooLarge(file)
    /\ resp.io = {}

\* C7: an upload result whose resource_type is neither image nor video is not
\* attached: add_media_to_item neither succeeds nor commits.
C7_UnknownTypeRejected ==
    (/\ resp.op = "add_media_to_item"
     /\ resp.upload # None
     /\ resp.upload[1].resource_type \notin {"image", "video"}) =>
        (resp.status # 200 /\ ~resp.committed)

\* C8: MediaService is constructed at most once, every caller of
\* get_media_service gets the same instance, and its backend choice is the one
\* the settings give.
C8_ConstructedOnce ==
    /\ Cardinality(constructed) <= 1
    /\ \A t1, t2 \in Threads :
          (threads[t1].pc = "done" /\ threads[t2].pc = "done") =>
             threads[t1].ret = threads[t2].ret
    /\ \A t \in Threads :
          threads[t].pc = "done" =>
             threads[t].ret[1].use_cloudinary = use_cloudinary(settings)

\* C9: after the sniff the file is at position 0, accepted or rejected, and
\* the local backend then writes and reports all the bytes of the file.
C9_ValidationRewinds ==
    [][ /\ (call.pc = "validate" /\ ~DeclaredTooLarge(file)) => file'.pos = 0
        /\ (/\ call.pc = "backend"
            /\ ~media_service[1].use_cloudinary
            /\ resp'.status = 200 /\ resp'.upload # None) =>
              /\ resp'.upload[1].bytes = file.length
              /\ \E x \in disk' \ disk :
                    x.path = resp'.upload[1].public_id /\ x.bytes = file.length
      ]_vars

\* a file longer than the sniffed prefix has been stored on the local disk
C9_Witness ==
    /\ resp.op = "upload_media"
    /\ resp.status = 200
    /\ resp.io = {"disk_write"}
    /\ resp.upload[1].bytes > SniffLen
    /\ \E x \in disk : x.bytes = resp.upload[1].bytes

\* C10: a file is uploaded (the backend has stored it) only for a request
\* whose identified requester passed the access check on the item.
C10_UploadAfterAccessCheck ==
    /\ call.io # {} =>
          /\ call.user # None
          /\ \E i \in Found(rows, call.id) : Permitted(call.user[1], rows[i].owner_id)
    /\ (resp.io # {} /\ resp.upload # None) =>
          (resp.user # None /\ resp.op = "add_media_to_item")

====
